---------------------------- MODULE Spec2Model ----------------------------
(***************************************************************************)
(* Behavioural model of the executable parts of the teaching notebooks:    *)
(*   - the cell-by-cell execution of a notebook in a fresh kernel          *)
(*     (04-Sets.ipynb, 01-Lists.ipynb),                                    *)
(*   - the challenge solutions compare_features, analyze_logs,             *)
(*     generate_pairings, convert_to_tuples, filter_passing_students and   *)
(*     format_data,                                                        *)
(*   - itertools.combinations as the Itertools notebook calls it,          *)
(*   - the mutable-default demonstration add_item_bad / add_item_good.     *)
(* Every sub-model has its own specification; the variables of the other   *)
(* sub-models stay at Idle.                                                *)
(*                                                                         *)
(* A Python str is modelled as a sequence of one-character strings, so     *)
(* that formatting and parsing are computed character by character.        *)
(***************************************************************************)
EXTENDS Integers, Sequences, FiniteSets, TLC

VARIABLES kernel, features, logs, iter, students, fmt, mem

vars == <<kernel, features, logs, iter, students, fmt, mem>>

Idle == [pc |-> "idle"]

(***************************************************************************)
(* Generic helpers.                                                        *)
(***************************************************************************)
\* All sequences over S of length 0..n.
SeqUpTo(S, n) == UNION {[1..k -> S] : k \in 0..n}

\* The elements of a sequence.
Range(s) == {s[i] : i \in 1..Len(s)}

(***************************************************************************)
(* 1. Notebook execution.  A code cell is the sequence of its top-level    *)
(* statements.  For each statement:                                        *)
(*   reads - the non-built-in global names it needs bound before it runs   *)
(*           (names read when it executes, including the annotation of a   *)
(*           module-level annotated assignment, the annotations and        *)
(*           defaults of a def, and the globals read by the notebook       *)
(*           functions it calls), built-in names being always bound;       *)
(*   binds - the names it binds on every path;                             *)
(*   maybe - the names it binds on some paths only (inside if / try).      *)
(* The trailing comment gives the line of the statement in the .ipynb.     *)
(***************************************************************************)
S(reads, binds) == [reads |-> reads, binds |-> binds, maybe |-> {}]

M(reads, binds, maybe) == [reads |-> reads, binds |-> binds, maybe |-> maybe]

Sets_cell1 ==
    <<
       S({}, {"Set", "Any", "Tuple", "FrozenSet"}),  \* L72: from typing import Set, Any, Tuple, FrozenSet
       S({"Set"}, {"unique_tags"}),  \* L76: unique_tags: Set[str] = {"python", "data", "web"
       S({"unique_tags"}, {}),  \* L77: print(f"Literal syntax (duplicates removed): {un
       S({"unique_tags"}, {}),  \* L78: print(f"Type: {type(unique_tags)}\n")
       S({"Set", "Any"}, {"mixed_set"}),  \* L80: mixed_set: Set[Any] = {1, "hello", 3.14, True, 0
       S({"mixed_set"}, {}),  \* L83: print(f"Mixed types (duplicates, bool/int treate
       S({}, {"numbers_list"}),  \* L86: numbers_list = [1, 2, 2, 3, 4, 3, 5]
       S({"Set", "numbers_list"}, {"set_from_list"}),  \* L87: set_from_list: Set[int] = set(numbers_list)
       S({"set_from_list"}, {}),  \* L88: print(f"Set from list: {set_from_list}")
       S({"Set"}, {"set_from_string"}),  \* L90: set_from_string: Set[str] = set("hello world") #
       S({"set_from_string"}, {}),  \* L91: print(f"Set from string: {set_from_string}\n")
       S({}, {"empty_dict"}),  \* L94: empty_dict = {}
       S({}, {"empty_set"}),  \* L95: empty_set = set()
       S({"empty_dict"}, {}),  \* L96: print(f"Empty dict: {empty_dict}, Type: {type(em
       S({"empty_set"}, {})   \* L97: print(f"Empty set: {empty_set}, Type: {type(empt
    >>

Sets_cell2 ==
    <<
       S({"Set"}, {"active_users"}),  \* L138: active_users: Set[str] = {"alice", "bob"}
       S({"active_users"}, {}),  \* L139: print(f"Initial set: {active_users}\n")
       S({"active_users"}, {}),  \* L144: active_users.add("charlie")
       S({"active_users"}, {}),  \* L145: active_users.add("alice") # Adding existing elem
       S({"active_users"}, {}),  \* L146: print(f"After adding 'charlie' and 'alice': {act
       S({"active_users"}, {}),  \* L149: try:
       S({"active_users"}, {}),  \* L154: active_users.add(("group", 1))
       S({"active_users"}, {}),  \* L155: print(f"After adding tuple: {active_users}\n")
       S({}, {"new_users"}),  \* L158: new_users = ["frank", "grace", "bob"] # List wit
       S({}, {"inactive_set"}),  \* L159: inactive_set = {"heidi"}
       S({"active_users", "new_users", "inactive_set"}, {}),  \* L160: active_users.update(new_users, inactive_set, "iv
       S({"active_users"}, {}),  \* L161: print(f"After update with list, set, string: {ac
       S({"active_users"}, {}),  \* L166: active_users.remove("bob")
       S({"active_users"}, {}),  \* L167: print(f"After removing 'bob': {active_users}")
       S({"active_users"}, {}),  \* L168: try:
       S({"active_users"}, {}),  \* L174: active_users.discard("alice")
       S({"active_users"}, {}),  \* L175: active_users.discard("zelda") # No error for non
       S({"active_users"}, {}),  \* L176: print(f"After discarding 'alice' and 'zelda': {a
       M({"active_users"}, {}, {"removed_user"}),  \* L180: if active_users:
       S({"active_users"}, {}),  \* L187: active_users.clear()
       S({"active_users"}, {})   \* L188: print(f"After clear(): {active_users}")
    >>

Sets_cell3 ==
    <<
       S({"Set"}, {"set_a"}),  \* L241: set_a: Set[int] = {1, 2, 3, 4, 5}
       S({"Set"}, {"set_b"}),  \* L242: set_b: Set[int] = {4, 5, 6, 7, 8}
       S({"Set"}, {"set_c"}),  \* L243: set_c: Set[int] = {1, 2}
       S({"set_a"}, {}),  \* L245: print(f"Set A: {set_a}")
       S({"set_b"}, {}),  \* L246: print(f"Set B: {set_b}")
       S({"set_c"}, {}),  \* L247: print(f"Set C: {set_c}\n")
       S({"Set", "set_a", "set_b"}, {"union_ab_method"}),  \* L251: union_ab_method: Set[int] = set_a.union(set_b)
       S({"union_ab_method"}, {}),  \* L252: print(f"A union B (method): {union_ab_method}")
       S({"Set", "set_a", "set_b"}, {"union_ab_operator"}),  \* L254: union_ab_operator: Set[int] = set_a | set_b
       S({"union_ab_operator"}, {}),  \* L255: print(f"A union B (operator): {union_ab_operator
       S({"Set", "set_a", "set_b"}, {"intersect_ab_method"}),  \* L259: intersect_ab_method: Set[int] = set_a.intersecti
       S({"intersect_ab_method"}, {}),  \* L260: print(f"A intersection B (method): {intersect_ab
       S({"Set", "set_a", "set_b"}, {"intersect_ab_operator"}),  \* L262: intersect_ab_operator: Set[int] = set_a & set_b
       S({"intersect_ab_operator"}, {}),  \* L263: print(f"A intersection B (operator): {intersect_
       S({"Set", "set_a", "set_b"}, {"diff_ab_method"}),  \* L267: diff_ab_method: Set[int] = set_a.difference(set_
       S({"Set", "set_b", "set_a"}, {"diff_ba_method"}),  \* L268: diff_ba_method: Set[int] = set_b.difference(set_
       S({"diff_ab_method"}, {}),  \* L269: print(f"A difference B (method): {diff_ab_method
       S({"diff_ba_method"}, {}),  \* L270: print(f"B difference A (method): {diff_ba_method
       S({"Set", "set_a", "set_b"}, {"diff_ab_operator"}),  \* L272: diff_ab_operator: Set[int] = set_a - set_b
       S({"Set", "set_b", "set_a"}, {"diff_ba_operator"}),  \* L273: diff_ba_operator: Set[int] = set_b - set_a
       S({"diff_ab_operator"}, {}),  \* L274: print(f"A difference B (operator): {diff_ab_oper
       S({"diff_ba_operator"}, {}),  \* L275: print(f"B difference A (operator): {diff_ba_oper
       S({"Set", "set_a", "set_b"}, {"sym_diff_ab_method"}),  \* L279: sym_diff_ab_method: Set[int] = set_a.symmetric_d
       S({"sym_diff_ab_method"}, {}),  \* L280: print(f"A symmetric_difference B (method): {sym_
       S({"Set", "set_a", "set_b"}, {"sym_diff_ab_operator"}),  \* L282: sym_diff_ab_operator: Set[int] = set_a ^ set_b
       S({"sym_diff_ab_operator"}, {}),  \* L283: print(f"A symmetric_difference B (operator): {sy
       S({"set_c", "set_a"}, {}),  \* L287: print(f"Is C subset of A? {set_c.issubset(set_a)
       S({"set_a", "set_c"}, {}),  \* L288: print(f"Is A subset of C? {set_a.issubset(set_c)
       S({"set_a", "set_c"}, {}),  \* L289: print(f"Is A superset of C? {set_a.issuperset(se
       S({"set_c", "set_a"}, {}),  \* L291: print(f"Is C <= A? {set_c <= set_a}") # True
       S({"set_a", "set_c"}, {}),  \* L292: print(f"Is A >= C? {set_a >= set_c}") # True
       S({"set_c", "set_a"}, {}),  \* L293: print(f"Is C < A? {set_c < set_a}")   # True (C 
       S({"set_a"}, {}),  \* L294: print(f"Is A < A? {set_a < set_a}")   # False (A
       S({"set_a"}, {}),  \* L295: print(f"Is A <= A? {set_a <= set_a}") # True (A 
       S({"Set"}, {"set_d"}),  \* L299: set_d: Set[int] = {10, 11}
       S({"set_a", "set_b"}, {}),  \* L300: print(f"Are A and B disjoint? {set_a.isdisjoint(
       S({"set_a", "set_d"}, {})   \* L301: print(f"Are A and D disjoint? {set_a.isdisjoint(
    >>

Sets_cell4 ==
    <<
       S({"Set"}, {"set_x"}),  \* L333: set_x: Set[int] = {1, 2, 3}
       S({"Set"}, {"set_y"}),  \* L334: set_y: Set[int] = {3, 4, 5}
       S({"set_x"}, {}),  \* L335: print(f"Initial Set X: {set_x}")
       S({"set_y"}, {}),  \* L336: print(f"Initial Set Y: {set_y}\n")
       S({"set_y", "set_x"}, {"set_x"}),  \* L342: set_x |= set_y
       S({"set_x"}, {}),  \* L343: print(f"X after |= Y (Union Update): {set_x}") #
       S({}, {"set_x"}),  \* L346: set_x = {1, 2, 3}
       S({"set_y", "set_x"}, {"set_x"}),  \* L352: set_x &= set_y
       S({"set_x"}, {}),  \* L353: print(f"X after &= Y (Intersection Update): {set
       S({}, {"set_x"}),  \* L356: set_x = {1, 2, 3}
       S({"set_y", "set_x"}, {"set_x"}),  \* L362: set_x -= set_y
       S({"set_x"}, {}),  \* L363: print(f"X after -= Y (Difference Update): {set_x
       S({}, {"set_x"}),  \* L366: set_x = {1, 2, 3}
       S({"set_y", "set_x"}, {"set_x"}),  \* L372: set_x ^= set_y
       S({"set_x"}, {})   \* L373: print(f"X after ^= Y (Symmetric Difference Updat
    >>

Sets_cell5 ==
    <<
       S({"Set"}, {"permissions"}),  \* L409: permissions: Set[str] = {"read", "write", "admin
       S({}, {}),  \* L413: print("Available permissions (iteration order no
       S({"permissions"}, {"perm"}),  \* L414: for perm in permissions:
       S({}, {}),  \* L416: print("\n")
       S({"permissions"}, {"user_has_admin"}),  \* L419: user_has_admin = "admin" in permissions
       S({"permissions"}, {"user_has_delete"}),  \* L420: user_has_delete = "delete" in permissions
       S({"user_has_admin"}, {}),  \* L422: print(f"Does user have 'admin' permission? {user
       S({"user_has_delete"}, {}),  \* L423: print(f"Does user have 'delete' permission? {use
       S({}, {"required_perms"}),  \* L426: required_perms = {"read", "write"}
       M({"required_perms", "permissions"}, {}, {"missing"})   \* L427: if required_perms.issubset(permissions):
    >>

Sets_cell6 ==
    <<
       S({"FrozenSet"}, {"frozen_perms"}),  \* L530: frozen_perms: FrozenSet[str] = frozenset(["read"
       S({"frozen_perms"}, {}),  \* L531: print(f"Frozenset: {frozen_perms}")
       S({"frozen_perms"}, {}),  \* L532: print(f"Type: {type(frozen_perms)}\n")
       S({}, {"other_frozen"}),  \* L538: other_frozen = frozenset(["read", "write"])
       S({"frozen_perms", "other_frozen"}, {"union_frozen"}),  \* L539: union_frozen = frozen_perms.union(other_frozen)
       S({"frozen_perms", "other_frozen"}, {"intersection_frozen"}),  \* L540: intersection_frozen = frozen_perms.intersection(
       S({"union_frozen"}, {}),  \* L541: print(f"Union of frozensets: {union_frozen} (Typ
       S({"intersection_frozen"}, {}),  \* L542: print(f"Intersection of frozensets: {intersectio
       S({"Dict", "FrozenSet", "frozen_perms"}, {"permission_groups"}),  \* L545: permission_groups: Dict[FrozenSet[str], str] = {
       S({"permission_groups"}, {}),  \* L550: print(f"Dictionary with frozenset keys: {permiss
       S({"permission_groups"}, {})   \* L551: print(f"Accessing via frozenset key: {permission
    >>

Sets_cell7 ==
    <<
       S({}, {"List", "Set", "Tuple"}),  \* L577: from typing import List, Set, Tuple
       S({"Set"}, {"FeatureSet"}),  \* L579: FeatureSet = Set[str]
       S({"Tuple", "FeatureSet"}, {"ComparisonResult"}),  \* L580: ComparisonResult = Tuple[FeatureSet, FeatureSet,
       S({"List", "ComparisonResult"}, {"compare_features"}),  \* L582: def compare_features(version1_features: List[str
       S({}, {"features_v1"}),  \* L605: features_v1 = ["login", "search", "profile", "up
       S({}, {"features_v2"}),  \* L606: features_v2 = ["login", "search", "dashboard", "
       S({"compare_features", "features_v1", "features_v2"}, {"common", "unique1", "unique2"}),  \* L608: common, unique1, unique2 = compare_features(feat
       S({"features_v1"}, {}),  \* L610: print(f"Version 1 Features (raw): {features_v1}"
       S({"features_v2"}, {}),  \* L611: print(f"Version 2 Features (raw): {features_v2}\
       S({"common"}, {}),  \* L613: print(f"Common Features: {common}")
       S({"unique1"}, {}),  \* L614: print(f"Unique to Version 1: {unique1}")
       S({"unique2"}, {})   \* L615: print(f"Unique to Version 2: {unique2}")
    >>

Sets_ipynb == <<Sets_cell1, Sets_cell2, Sets_cell3, Sets_cell4, Sets_cell5, Sets_cell6, Sets_cell7>>

Lists_cell1 ==
    <<
       S({}, {"list_1"}),  \* L37: list_1 = ["banana", "cherry", "apple"]
       S({"list_1"}, {}),  \* L38: print(list_1)
       S({}, {"list_2"}),  \* L41: list_2 = list()
       S({"list_2"}, {}),  \* L42: print(list_2)
       S({}, {"list_3"}),  \* L45: list_3 = [5, True, "apple"]
       S({"list_3"}, {}),  \* L46: print(list_3)
       S({}, {"list_4"}),  \* L49: list_4 = [0, 0, 1, 1]
       S({"list_4"}, {})   \* L50: print(list_4)
    >>

Lists_cell2 ==
    <<
       S({"list_1"}, {"item"}),  \* L68: item = list_1[0]
       S({"item"}, {}),  \* L69: print(item)
       S({"list_1"}, {"item"}),  \* L73: item = list_1[-1]
       S({"item"}, {})   \* L74: print(item)
    >>

Lists_cell3 ==
    <<
       S({"list_1"}, {}),  \* L93: list_1[2] = "lemon"
       S({"list_1"}, {})   \* L94: print(list_1)
    >>

Lists_cell4 ==
    <<
       S({}, {"my_list"}),  \* L142: my_list = ["banana", "cherry", "apple"]
       S({"my_list"}, {}),  \* L145: print("Length:", len(my_list))
       S({"my_list"}, {}),  \* L148: my_list.append("orange")
       S({"my_list"}, {}),  \* L151: my_list.insert(1, "blueberry")
       S({"my_list"}, {}),  \* L152: print(my_list)
       S({"my_list"}, {"item"}),  \* L155: item = my_list.pop()
       S({"item"}, {}),  \* L156: print("Popped item: ", item)
       S({"my_list"}, {}),  \* L159: my_list.remove("cherry") # Value error if not in
       S({"my_list"}, {}),  \* L160: print(my_list)
       S({"my_list"}, {}),  \* L163: my_list.clear()
       S({"my_list"}, {}),  \* L164: print(my_list)
       S({}, {"my_list"}),  \* L167: my_list = ["banana", "cherry", "apple"]
       S({"my_list"}, {}),  \* L168: my_list.reverse()
       S({"my_list"}, {}),  \* L169: print('Reversed: ', my_list)
       S({"my_list"}, {}),  \* L172: my_list.sort()
       S({"my_list"}, {}),  \* L173: print('Sorted: ', my_list)
       S({}, {"my_list"}),  \* L177: my_list = ["banana", "cherry", "apple"]
       S({"my_list"}, {"new_list"}),  \* L178: new_list = sorted(my_list)
       S({}, {"list_with_zeros"}),  \* L181: list_with_zeros = [0] * 5
       S({"list_with_zeros"}, {}),  \* L182: print(list_with_zeros)
       S({"list_with_zeros", "my_list"}, {"list_concat"}),  \* L185: list_concat = list_with_zeros + my_list
       S({"list_concat"}, {}),  \* L186: print(list_concat)
       S({}, {"string_to_list"}),  \* L189: string_to_list = list('Hello')
       S({"string_to_list"}, {}),  \* L190: print(string_to_list)
       S({}, {"number"}),  \* L193: number=[1,2 ,1 ,3,4 ,23,12]
       S({"number"}, {}),  \* L194: print(number.count(1))
       S({"number"}, {}),  \* L195: print(number.index(1))
       S({}, {"a", "b", "c", "other", "d"}),  \* L198: a,b,c, *other, d = [1,2,3,4,5,6,7,8,9]
       S({"a"}, {}),  \* L199: print(a)
       S({"b"}, {}),  \* L200: print(b)
       S({"c"}, {}),  \* L201: print(c)
       S({"other"}, {}),  \* L202: print(other)
       S({"d"}, {}),  \* L203: print(d)
       S({}, {"squares"}),  \* L206: squares = [i*i for i in range(10)]
       S({"squares"}, {}),  \* L207: print(squares)
       S({}, {"evens"}),  \* L210: evens = [i*i for i in range(10) if i%2 == 0]
       S({"evens"}, {}),  \* L211: print(evens)
       S({}, {"pairs"}),  \* L214: pairs = [(i,j) for i in range(2) for j in range(
       S({"pairs"}, {}),  \* L215: print(pairs)
       S({}, {"pairs"}),  \* L218: pairs = [(i,j) for i in range(2) for j in range(
       S({"pairs"}, {})   \* L219: print(pairs)
    >>

Lists_cell5 ==
    <<
       S({}, {"list_org"}),  \* L236: list_org = ["banana", "cherry", "apple"]
       S({"list_org"}, {"list_copy"}),  \* L239: list_copy = list_org
       S({"list_copy"}, {}),  \* L242: list_copy.append(True)
       S({"list_copy"}, {}),  \* L243: print(list_copy)
       S({"list_org"}, {}),  \* L244: print(list_org)
       S({}, {"list_org"}),  \* L248: list_org = ["banana", "cherry", "apple"]
       S({"list_org"}, {"list_copy"}),  \* L250: list_copy = list_org.copy()
       S({"list_copy"}, {}),  \* L255: list_copy.append(True)
       S({"list_copy"}, {}),  \* L256: print(list_copy)
       S({"list_org"}, {}),  \* L257: print(list_org)
       S({}, {"list_org"}),  \* L261: list_org = [[1,2], [3,4]]
       S({"list_org"}, {"list_copy"}),  \* L262: list_copy = list_org.copy()
       S({"list_copy"}, {}),  \* L263: list_copy[1].append(5)
       S({"list_copy"}, {}),  \* L264: print(list_copy)
       S({"list_org"}, {}),  \* L265: print(list_org)
       S({}, {"deepcopy"}),  \* L269: from copy import deepcopy
       S({}, {"list_org"}),  \* L270: list_org = [[1,2], [3,4]]
       S({"deepcopy", "list_org"}, {"list_copy"}),  \* L271: list_copy = deepcopy(list_org)
       S({"list_copy"}, {}),  \* L272: list_copy[1].append(5)
       S({"list_copy"}, {}),  \* L273: print(list_copy)
       S({"list_org"}, {})   \* L274: print(list_org)
    >>

Lists_cell6 ==
    <<
       S({"list_1"}, {"i"}),  \* L292: for i in list_1:
       S({"list_1"}, {"i", "name"}),  \* L296: for i, name in enumerate(list_1):
       S({"list_1"}, {"i"}),  \* L300: for i in range(len(list_1)):
       S({}, {"i"}),  \* L304: i = 0
       S({"i", "list_1"}, {"i"}),  \* L305: while i < len(list_1):
       S({}, {"i"}),  \* L310: i = 0
       S({"list_1", "i"}, {"i"})   \* L311: while True:
    >>

Lists_cell7 ==
    <<
       S({"list_1"}, {}),  \* L334: if "banana" in list_1:
       S({"list_1"}, {}),  \* L340: try:
       S({"list_1"}, {})   \* L347: if list_1.count("banana") > 0:
    >>

Lists_cell8 ==
    <<
       S({}, {"a"}),  \* L368: a = [1, 2, 3, 4, 5, 6, 7, 8, 9, 10]
       S({"a"}, {"b"}),  \* L369: b = a[1:3] # Note that the last index is not inc
       S({"b"}, {}),  \* L370: print(b)
       S({"a"}, {"b"}),  \* L371: b = a[2:] # until the end
       S({"b"}, {}),  \* L372: print(b)
       S({"a"}, {"b"}),  \* L373: b = a[:3] # from beginning
       S({"b"}, {}),  \* L374: print(b)
       S({"a"}, {}),  \* L375: a[0:3] = [0] # replace sub-parts, you need an it
       S({"a"}, {}),  \* L376: print(a)
       S({"a"}, {"b"}),  \* L377: b = a[::2] # start to end with every second item
       S({"b"}, {}),  \* L378: print(b)
       S({"a"}, {"a"}),  \* L379: a = a[::-1] # reverse the list with a negative s
       S({"a"}, {}),  \* L380: print(a)
       S({"a"}, {"b"}),  \* L381: b = a[:] # copy a list with slicing
       S({"b"}, {}),  \* L382: print(b)
       S({}, {"a"}),  \* L385: a=[1,2,3,4,5,6,7,8,9]
       S({"a"}, {"b"}),  \* L387: b=a[:]
       S({"b"}, {}),  \* L389: b[:]=[]
       S({"a"}, {"b"}),  \* L391: b=a[::-1]
       S({"a"}, {"b"}),  \* L393: b=a[2:5]
       S({"a"}, {"b"}),  \* L395: b=a[:2]+a[5:]
       S({"a"}, {"b"}),  \* L397: b=a[:2]+[10,11]+a[5:]
       S({"a"}, {"b"}),  \* L399: b=a[:2]+[10,11]+a[2:]
       S({"a"}, {"b"}),  \* L401: b=a[:]
       S({"a"}, {"b"}),  \* L403: b=sorted(a)
       S({}, {"shuffle"}),  \* L405: from random import shuffle
       S({"shuffle", "a"}, {}),  \* L406: shuffle(a)
       S({"a"}, {"b"}),  \* L408: b=max(a)
       S({"a"}, {"b"}),  \* L409: b=min(a)
       S({"a"}, {"b"}),  \* L411: b=sum(a)
       S({"a"}, {"b"}),  \* L413: b=sum(a)/len(a)
       S({"a"}, {"median"}),  \* L415: median=sorted(a)[len(a)//2] if len(a)%2!=0 else 
       S({}, {"mean"}),  \* L417: from statistics import mean
       S({"mean", "a"}, {"b"}),  \* L418: b=mean(a)
       S({}, {"variance"}),  \* L420: from statistics import variance
       S({"variance", "a"}, {"b"}),  \* L421: b=variance(a)
       S({}, {"stdev"}),  \* L423: from statistics import stdev
       S({"stdev", "a"}, {"b"}),  \* L424: b=stdev(a)
       S({}, {"Counter"}),  \* L427: from collections import Counter
       S({"Counter", "a"}, {"b"}),  \* L428: b=Counter(a).most_common(1)[0][0]
       S({"a"}, {"b"}),  \* L430: b=a.count(3)
       S({}, {"num"}),  \* L434: num=[1,2,3,4,5,6,7,8,9]
       S({"num"}, {"b"}),  \* L435: b=num[::2]
       S({"num"}, {"check"})   \* L438: check= all(num[i] <= num[i + 1] for i in range(l
    >>

Lists_cell9 ==
    <<
       S({}, {"a"}),  \* L457: a = [1, 2, 3, 4, 5, 6, 7, 8]
       S({"a"}, {"b"}),  \* L458: b = [i * i for i in a] # squares each element
       S({"b"}, {}),  \* L459: print(b)
       S({"a"}, {"b"}),  \* L462: b = [i for i in a if i > 4]
       S({"b"}, {}),  \* L463: print(b)
       S({"a"}, {"b"}),  \* L466: b = [i * i for i in a]
       S({"b"}, {})   \* L467: print(b)
    >>

Lists_cell10 ==
    <<
       S({}, {"a"}),  \* L485: a = [[1, 2], [3, 4]]
       S({"a"}, {}),  \* L486: print(a)
       S({"a"}, {}),  \* L487: print(a[0])
       S({"a"}, {})   \* L488: print(a[0][1])
    >>

Lists_cell11 ==
    <<
       S({}, {"matrix"}),  \* L506: matrix = [['?' for _ in range(3)] for _ in range
       S({"matrix"}, {}),  \* L507: print( *matrix,sep="\n")
       S({"matrix"}, {}),  \* L508: matrix[1][1]= "x"
       S({"matrix"}, {}),  \* L509: print( *matrix,sep="\n")
       S({}, {"matrix"}),  \* L513: matrix=[[0]*3 for _ in range(3)]
       S({}, {"matrix"})   \* L515: matrix=[[0 for _ in range(3)] for _ in range(3)]
    >>

Lists_cell12 ==
    <<
       S({}, {"choice"}),  \* L540: from random import choice
       S({}, {"options"}),  \* L542: options = {1: 'Rock', 2: 'Paper', 3: 'Scissors'}
       S({}, {}),  \* L543: print("The options are:")
       S({"options"}, {"key", "value"}),  \* L544: for key, value in options.items():
       M({"options"}, {}, {"user_choice"}),  \* L547: try:
       S({"choice", "options"}, {"computer_choice"}),  \* L555: computer_choice = choice(list(options.keys()))
       S({"options", "user_choice"}, {}),  \* L557: print(f"You chose {options[user_choice]}")
       S({"options", "computer_choice"}, {}),  \* L558: print(f"The computer chose {options[computer_cho
       S({"user_choice", "computer_choice"}, {})   \* L560: if user_choice == computer_choice:
    >>

Lists_ipynb == <<Lists_cell1, Lists_cell2, Lists_cell3, Lists_cell4, Lists_cell5, Lists_cell6, Lists_cell7, Lists_cell8, Lists_cell9, Lists_cell10, Lists_cell11, Lists_cell12>>

Notebooks == [Sets |-> Sets_ipynb, Lists |-> Lists_ipynb]

\* The statement the kernel is about to run.
CurrentStmt == Notebooks[kernel.notebook][kernel.cell][kernel.stmt]

KernelRunning ==
    /\ kernel.pc = "running"
    /\ kernel.cell <= Len(Notebooks[kernel.notebook])

\* Position after the current statement ran / after the current cell stopped.
AfterStmt ==
    IF kernel.stmt < Len(Notebooks[kernel.notebook][kernel.cell])
    THEN [cell |-> kernel.cell, stmt |-> kernel.stmt + 1]
    ELSE [cell |-> kernel.cell + 1, stmt |-> 1]

AfterCell == [cell |-> kernel.cell + 1, stmt |-> 1]

\* The names of the current statement that are not bound in the session.
Unbound == CurrentStmt.reads \ kernel.bound

OtherThanKernel == <<features, logs, iter, students, fmt, mem>>

\* The statement runs: its names get bound in the session's namespace.
ExecStmt ==
    /\ KernelRunning
    /\ Unbound = {}
    /\ \E got \in SUBSET CurrentStmt.maybe :
          kernel' = [kernel EXCEPT !.bound = @ \cup CurrentStmt.binds \cup got,
                                   !.cell = AfterStmt.cell,
                                   !.stmt = AfterStmt.stmt]
    /\ UNCHANGED OtherThanKernel

\* The statement reads an unbound name: NameError, the cell stops there and
\* the reader goes on with the next cell.
RaiseNameError ==
    /\ KernelRunning
    /\ Unbound # {}
    /\ kernel' = [kernel EXCEPT !.failed = @ \cup {[cell |-> kernel.cell, names |-> Unbound]},
                                !.cell = AfterCell.cell,
                                !.stmt = AfterCell.stmt]
    /\ UNCHANGED OtherThanKernel

\* A fresh session of one notebook: nothing bound, first cell first.
InitKernel ==
    /\ kernel \in {[pc |-> "running", notebook |-> n, cell |-> 1, stmt |-> 1,
                    bound |-> {}, failed |-> {}] : n \in DOMAIN Notebooks}
    /\ features = Idle /\ logs = Idle /\ iter = Idle
    /\ students = Idle /\ fmt = Idle /\ mem = Idle

NextKernel == ExecStmt \/ RaiseNameError

SpecKernel == InitKernel /\ [][NextKernel]_vars

\* C1: running a notebook top to bottom in a fresh session, no cell fails on
\* an unbound name: every name a statement reads was bound by an earlier
\* statement of the same notebook or is a built-in.
C1_NoUnboundName == kernel.pc = "running" => kernel.failed = {}

(***************************************************************************)
(* 2. compare_features (04-Sets.ipynb, challenge solution).                *)
(***************************************************************************)
FeatureNames == {"login", "search", "export"}

MaxFeatures == 3

\* set(iterable) of a list: the set of its elements.
PySet(lst) == {lst[i] : i \in 1..Len(lst)}

compare_features_copy_paste(version1_features, version2_features) ==
    LET set_v1 == PySet(version1_features)
        set_v2 == PySet(version2_features)
        common_features == set_v1 \cap set_v2
        unique_to_v1 == set_v1 \ set_v2
        unique_to_v2 == set_v1 \ set_v2
    IN  <<common_features, unique_to_v1, unique_to_v2>>

compare_features(version1_features, version2_features) ==
    LET set_v1 == PySet(version1_features)
        set_v2 == PySet(version2_features)
        common_features == set_v1 \cap set_v2
        unique_to_v1 == set_v1 \ set_v2
        unique_to_v2 == set_v2 \ set_v1
    IN  <<common_features, unique_to_v1, unique_to_v2>>

OtherThanFeatures == <<kernel, logs, iter, students, fmt, mem>>

\* common, unique1, unique2 = compare_features(features_v1, features_v2)
CallCompareFeatures ==
    /\ features.pc = "call"
    /\ LET r == compare_features(features.features_v1, features.features_v2)
       IN  features' = [pc |-> "returned",
                        features_v1 |-> features.features_v1,
                        features_v2 |-> features.features_v2,
                        common |-> r[1], unique1 |-> r[2], unique2 |-> r[3]]
    /\ UNCHANGED OtherThanFeatures

InitFeatures ==
    /\ features \in {[pc |-> "call", features_v1 |-> a, features_v2 |-> b] :
                        a, b \in SeqUpTo(FeatureNames, MaxFeatures)}
    /\ kernel = Idle /\ logs = Idle /\ iter = Idle
    /\ students = Idle /\ fmt = Idle /\ mem = Idle

NextFeatures == CallCompareFeatures

SpecFeatures == InitFeatures /\ [][NextFeatures]_vars

\* C2: compare_features returns (common, unique1, unique2): common holds
\* exactly the features occurring in both lists, unique1 exactly those
\* occurring in the first list and not in the second, unique2 exactly those
\* occurring in the second and not in the first; the three sets are pairwise
\* disjoint and their union is the set of all features of either list.
C2_CompareFeatures ==
    features.pc = "returned" =>
        LET l1 == features.features_v1
            l2 == features.features_v2
            In1(f) == \E i \in 1..Len(l1) : l1[i] = f
            In2(f) == \E i \in 1..Len(l2) : l2[i] = f
        IN  /\ features.common = {f \in FeatureNames : In1(f) /\ In2(f)}
            /\ features.unique1 = {f \in FeatureNames : In1(f) /\ ~In2(f)}
            /\ features.unique2 = {f \in FeatureNames : In2(f) /\ ~In1(f)}
            /\ features.common \cap features.unique1 = {}
            /\ features.common \cap features.unique2 = {}
            /\ features.unique1 \cap features.unique2 = {}
            /\ features.common \cup features.unique1 \cup features.unique2
                  = {f \in FeatureNames : In1(f) \/ In2(f)}

\* A call on lists with duplicates where all three result sets are non-empty.
C2_Witness ==
    /\ features.pc = "returned"
    /\ Len(features.features_v1) > Cardinality(PySet(features.features_v1))
    /\ Len(features.features_v2) > Cardinality(PySet(features.features_v2))
    /\ features.common # {}
    /\ features.unique1 # {}
    /\ features.unique2 # {}

(***************************************************************************)
(* 3. analyze_logs (03-Dictionary.ipynb, challenge solution).  A log entry *)
(* is a dict: a function from its keys to their values.                    *)
(***************************************************************************)
Levels == {"INFO", "ERROR", "UNKNOWN"}

\* Entries with a 'level' key (one of them naming UNKNOWN itself) and an
\* entry without one.
LogEntries ==
    {[level |-> l, message |-> "m"] : l \in Levels}
        \cup {[timestamp |-> 1, message |-> "m"]}

MaxLogs == 3

EmptyDict == [k \in {} |-> 0]

\* dict.get(key, default)
dict_get(d, key, default) == IF key \in DOMAIN d THEN d[key] ELSE default

\* level_counts[level] += 1 on a defaultdict(int): a missing key starts at int() = 0.
defaultdict_increment(level_counts, level) ==
    [k \in DOMAIN level_counts \cup {level} |->
        IF k = level
        THEN (IF k \in DOMAIN level_counts THEN level_counts[k] ELSE 0) + 1
        ELSE level_counts[k]]

RECURSIVE analyze_logs_loop(_, _, _)
\* for entry in logs: level = entry.get("level", "UNKNOWN"); level_counts[level] += 1
analyze_logs_loop(log_list, i, level_counts) ==
    IF i > Len(log_list) THEN level_counts
    ELSE LET entry == log_list[i]
             level == dict_get(entry, "level", "UNKNOWN")
         IN  analyze_logs_loop(log_list, i + 1, defaultdict_increment(level_counts, level))

analyze_logs_overwrite(log_list) ==
    LET level_counts == [l \in {dict_get(log_list[i], "level", "UNKNOWN") : i \in 1..Len(log_list)} |-> 1]
    IN  level_counts

analyze_logs(log_list) ==
    LET level_counts == analyze_logs_loop(log_list, 1, EmptyDict)
    IN  level_counts

OtherThanLogs == <<kernel, features, iter, students, fmt, mem>>

\* analysis_result = analyze_logs(log_data)
CallAnalyzeLogs ==
    /\ logs.pc = "call"
    /\ logs' = [pc |-> "returned", log_data |-> logs.log_data,
                analysis_result |-> analyze_logs(logs.log_data)]
    /\ UNCHANGED OtherThanLogs

InitLogs ==
    /\ logs \in {[pc |-> "call", log_data |-> d] : d \in SeqUpTo(LogEntries, MaxLogs)}
    /\ kernel = Idle /\ features = Idle /\ iter = Idle
    /\ students = Idle /\ fmt = Idle /\ mem = Idle

NextLogs == CallAnalyzeLogs

SpecLogs == InitLogs /\ [][NextLogs]_vars

\* The level of an entry as the claim states it.
LevelOf(entry) == IF "level" \in DOMAIN entry THEN entry.level ELSE "UNKNOWN"

RECURSIVE SumOver(_, _)
SumOver(d, keys) ==
    IF keys = {} THEN 0
    ELSE LET k == CHOOSE x \in keys : TRUE IN d[k] + SumOver(d, keys \ {k})

\* C3: analyze_logs returns a dict whose keys are exactly the levels that
\* occur in the entries (an entry without a 'level' key counts as 'UNKNOWN')
\* and whose value for each level is the number of entries with that level;
\* the values sum to len(logs) and an empty list gives an empty dict.
C3_AnalyzeLogs ==
    logs.pc = "returned" =>
        LET d == logs.log_data
            r == logs.analysis_result
        IN  /\ DOMAIN r = {LevelOf(d[i]) : i \in 1..Len(d)}
            /\ \A l \in DOMAIN r :
                  r[l] = Cardinality({i \in 1..Len(d) : LevelOf(d[i]) = l})
            /\ SumOver(r, DOMAIN r) = Len(d)
            /\ (Len(d) = 0 => DOMAIN r = {})

\* A call where one level occurs several times, one entry has no 'level'
\* key and another names 'UNKNOWN' itself.
C3_Witness ==
    /\ logs.pc = "returned"
    /\ \E i, j \in 1..Len(logs.log_data) :
          /\ "level" \notin DOMAIN logs.log_data[i]
          /\ "level" \in DOMAIN logs.log_data[j]
          /\ logs.log_data[j].level = "UNKNOWN"
    /\ logs.analysis_result["UNKNOWN"] = 2
    /\ Cardinality(DOMAIN logs.analysis_result) = 2

(***************************************************************************)
(* 4. itertools.combinations and generate_pairings (01-Itertools.ipynb).   *)
(* combinations(iterable, r) emits, in lexicographic order of the index    *)
(* tuples, tuple(pool[i] for i in indices) for every strictly increasing   *)
(* tuple of r positions of the pool.                                       *)
(***************************************************************************)
ItemValues == {"a", "b", "c"}

TeamNames == {"Eagles", "Sharks", "Lions"}

MaxItems == 4

MaxR == 3

RECURSIVE index_combinations(_, _, _)
\* The strictly increasing r-tuples of positions lo..n, in lexicographic order.
index_combinations(lo, n, r) ==
    IF r = 0 THEN << <<>> >>
    ELSE IF n - lo + 1 < r THEN << >>
    ELSE LET rest == index_combinations(lo + 1, n, r - 1)
             with_lo == [k \in 1..Len(rest) |-> <<lo>> \o rest[k]]
         IN  with_lo \o index_combinations(lo + 1, n, r)

\* What a reader who takes elements "as unique based on their value" expects:
\* the positional combinations with later equal tuples left out.
combinations_by_value(pool, r) ==
    LET indices == index_combinations(1, Len(pool), r)
        all == [k \in 1..Len(indices) |-> [j \in 1..r |-> pool[indices[k][j]]]]
        first == {k \in 1..Len(all) : \A h \in 1..(k - 1) : all[h] # all[k]}
        nth(m) == CHOOSE k \in first : Cardinality({h \in first : h <= k}) = m
    IN  [m \in 1..Cardinality(first) |-> all[nth(m)]]

\* list(combinations(pool, r))
combinations(pool, r) ==
    LET indices == index_combinations(1, Len(pool), r)
    IN  [k \in 1..Len(indices) |-> [j \in 1..r |-> pool[indices[k][j]]]]

generate_pairings(teams) ==
    IF Len(teams) < 2 THEN << >>
    ELSE LET pairings_iterator == combinations(teams, 2)
         IN  pairings_iterator

OtherThanIter == <<kernel, features, logs, students, fmt, mem>>

\* comb = combinations(items, r=r_value); print(list(comb))
CallCombinations ==
    /\ iter.pc = "call"
    /\ iter.fn = "combinations"
    /\ iter' = [iter EXCEPT !.pc = "returned",
                            !.out = combinations(iter.items, iter.r_value)]
    /\ UNCHANGED OtherThanIter

\* unique_matches = generate_pairings(team_list)
CallGeneratePairings ==
    /\ iter.pc = "call"
    /\ iter.fn = "generate_pairings"
    /\ iter' = [iter EXCEPT !.pc = "returned",
                            !.out = generate_pairings(iter.items)]
    /\ UNCHANGED OtherThanIter

InitIter ==
    /\ \/ iter \in {[pc |-> "call", fn |-> "combinations", items |-> s,
                     r_value |-> r, out |-> << >>] :
                        s \in SeqUpTo(ItemValues, MaxItems), r \in 0..MaxR}
       \/ iter \in {[pc |-> "call", fn |-> "generate_pairings", items |-> s,
                     r_value |-> 2, out |-> << >>] :
                        s \in SeqUpTo(TeamNames, MaxItems)}
    /\ kernel = Idle /\ features = Idle /\ logs = Idle
    /\ students = Idle /\ fmt = Idle /\ mem = Idle

NextIter == CallCombinations \/ CallGeneratePairings

SpecIter == InitIter /\ [][NextIter]_vars

\* C4 (as claimed): generate_pairings returns every unordered pairing exactly
\* once: n(n-1)/2 tuples for n teams, never both (A, B) and (B, A), never two
\* equal pairings, and [] when fewer than 2 teams are given.
C4_UniquePairings ==
    (iter.pc = "returned" /\ iter.fn = "generate_pairings") =>
        LET n == Len(iter.items)
            out == iter.out
        IN  /\ 2 * Len(out) = n * (n - 1)
            /\ \A i, j \in 1..Len(out) :
                  i # j => /\ out[i] # out[j]
                           /\ out[i] # <<out[j][2], out[j][1]>>
            /\ (n < 2 => out = << >>)

IncreasingIndices(n, r) ==
    {f \in [1..r -> 1..n] : \A a, b \in 1..r : a < b => f[a] < f[b]}

LexLess(f, g, r) ==
    \E a \in 1..r : f[a] < g[a] /\ \A b \in 1..(a - 1) : f[b] = g[b]

PyStr(chars) == [t |-> "str", v |-> chars]

PyInt(n) == [t |-> "int", v |-> n]

PyFloat(tenths) == [t |-> "float", v |-> tenths]

PyNone == [t |-> "NoneType", v |-> 0]

ValueError == [t |-> "ValueError", v |-> 0]

TypeError == [t |-> "TypeError", v |-> 0]

Raised(x) == x.t \in {"ValueError", "TypeError"}

Digits == <<"0", "1", "2", "3", "4", "5", "6", "7", "8", "9">>

DigitValue(c) == CHOOSE d \in 0..9 : Digits[d + 1] = c

IsDigits(chars) ==
    /\ Len(chars) > 0
    /\ \A i \in 1..Len(chars) : \E d \in 0..9 : Digits[d + 1] = chars[i]

RECURSIVE IntToChars(_)
\* The decimal digits of n >= 0.
IntToChars(n) ==
    IF n < 10 THEN <<Digits[n + 1]>>
    ELSE IntToChars(n \div 10) \o <<Digits[(n % 10) + 1]>>

RECURSIVE CharsToInt(_)
\* The number a non-empty string of decimal digits denotes.
CharsToInt(chars) ==
    IF Len(chars) = 0 THEN 0
    ELSE CharsToInt(SubSeq(chars, 1, Len(chars) - 1)) * 10
            + DigitValue(chars[Len(chars)])

\* str(x)
py_str(x) ==
    CASE x.t = "str" -> x
      [] x.t = "int" -> PyStr(IntToChars(x.v))
      [] x.t = "float" -> PyStr(IntToChars(x.v \div 10) \o <<".">>
                                \o IntToChars(x.v % 10))
      [] x.t = "NoneType" -> PyStr(<<"N", "o", "n", "e">>)

\* int(x): truncates a float, parses a string of digits.
py_int(x) ==
    CASE x.t = "int" -> x
      [] x.t = "float" -> PyInt(x.v \div 10)
      [] x.t = "str" -> IF IsDigits(x.v) THEN PyInt(CharsToInt(x.v)) ELSE ValueError
      [] x.t = "NoneType" -> TypeError

\* float(x): parses digits, or digits '.' one digit.
py_float(x) ==
    CASE x.t = "float" -> x
      [] x.t = "int" -> PyFloat(x.v * 10)
      [] x.t = "str" ->
            LET n == Len(x.v) IN
            IF IsDigits(x.v) THEN PyFloat(CharsToInt(x.v) * 10)
            ELSE IF /\ n >= 3
                    /\ x.v[n - 1] = "."
                    /\ IsDigits(SubSeq(x.v, 1, n - 2))
                    /\ IsDigits(SubSeq(x.v, n, n))
                 THEN PyFloat(CharsToInt(SubSeq(x.v, 1, n - 2)) * 10
                               + DigitValue(x.v[n]))
                 ELSE ValueError
      [] x.t = "NoneType" -> TypeError

\* The number a numeric value denotes, in tenths.
Tenths(x) == IF x.t = "int" THEN x.v * 10 ELSE x.v

(***************************************************************************)
(* 6. convert_to_tuples and filter_passing_students (02-Tuple.ipynb).      *)
(***************************************************************************)
\* Inner lists like those of raw_student_data: well-formed rows (one with a
\* score equal to the default passing grade), a score given as a string, a
\* row of invalid length, rows whose id or score cannot be converted, and a
\* row whose fields all need a conversion.
RawRows ==
    { <<PyStr(<<"A", "l">>), PyInt(101), PyFloat(885)>>,
      <<PyStr(<<"B", "o">>), PyInt(102), PyFloat(600)>>,
      <<PyStr(<<"D", "i">>), PyInt(104), PyFloat(599)>>,
      <<PyStr(<<"F", "r">>), PyInt(106), PyStr(<<"6", "5">>)>>,
      <<PyStr(<<"Z", "o">>), PyInt(109), PyStr(<<"7", "2", ".", "5">>)>>,
      <<PyStr(<<"G", "r">>), PyInt(107)>>,
      <<PyStr(<<"H", "y">>), PyStr(<<"x">>), PyFloat(700)>>,
      <<PyStr(<<"N", "y">>), PyInt(108), PyNone>>,
      <<PyInt(7), PyFloat(105), PyInt(75)>> }

PassingGrades == {PyFloat(599), PyFloat(650)}

MaxStudents == 2

\* passing_grade: float = 60.0, in tenths
default_passing_grade == 600

RECURSIVE convert_to_tuples_loop(_, _, _)
convert_to_tuples_loop(data, i, student_tuples) ==
    IF i > Len(data) THEN student_tuples
    ELSE LET student_list == data[i] IN
         IF Len(student_list) = 3
         THEN LET name == py_str(student_list[1])
                  student_id == py_int(student_list[2])
                  score == py_float(student_list[3])
              IN  IF Raised(student_id) \/ Raised(score)
                  THEN convert_to_tuples_loop(data, i + 1, student_tuples)
                  ELSE convert_to_tuples_loop(data, i + 1,
                           Append(student_tuples, <<name, student_id, score>>))
         ELSE convert_to_tuples_loop(data, i + 1, student_tuples)

\* The alternative the solution mentions: [tuple(student) for student in data]
convert_to_tuples_comprehension(data) == [i \in 1..Len(data) |-> data[i]]

convert_to_tuples(data) == convert_to_tuples_loop(data, 1, << >>)

RECURSIVE filter_loop_strict(_, _, _, _)
filter_loop_strict(student_list, passing_grade, i, passing_students) ==
    IF i > Len(student_list) THEN passing_students
    ELSE LET score == student_list[i][3] IN
         IF Tenths(score) > Tenths(passing_grade)
         THEN filter_loop_strict(student_list, passing_grade, i + 1,
                                 Append(passing_students, student_list[i]))
         ELSE filter_loop_strict(student_list, passing_grade, i + 1, passing_students)

RECURSIVE filter_passing_students_loop(_, _, _, _)
filter_passing_students_loop(student_list, passing_grade, i, passing_students) ==
    IF i > Len(student_list) THEN passing_students
    ELSE LET student_tuple == student_list[i]
             name == student_tuple[1]
             student_id == student_tuple[2]
             score == student_tuple[3]
         IN  IF Tenths(score) >= Tenths(passing_grade)
             THEN filter_passing_students_loop(student_list, passing_grade, i + 1,
                                               Append(passing_students, student_tuple))
             ELSE filter_passing_students_loop(student_list, passing_grade, i + 1,
                                               passing_students)

filter_passing_students_strict(student_list, passing_grade) ==
    [ret |-> filter_loop_strict(student_list, passing_grade, 1, << >>),
     students |-> student_list]

\* Returns the new list; the list passed in is only read.
filter_passing_students(student_list, passing_grade) ==
    [ret |-> filter_passing_students_loop(student_list, passing_grade, 1, << >>),
     students |-> student_list]

OtherThanStudents == <<kernel, features, logs, iter, fmt, mem>>

\* student_tuples = convert_to_tuples(raw_student_data)
CallConvertToTuples ==
    /\ students.pc = "raw"
    /\ students' = [pc |-> "converted",
                    raw_student_data |-> students.raw_student_data,
                    student_tuples |-> convert_to_tuples(students.raw_student_data)]
    /\ UNCHANGED OtherThanStudents

\* passing = filter_passing_students(student_tuples), with the default
\* passing_grade or with one given.
CallFilterPassingStudents ==
    /\ students.pc = "converted"
    /\ \E given \in {PyNone} \cup PassingGrades :
          LET passing_grade == IF given = PyNone THEN PyFloat(default_passing_grade)
                               ELSE given
              r == filter_passing_students(students.student_tuples, passing_grade)
          IN  students' = [pc |-> "filtered",
                           raw_student_data |-> students.raw_student_data,
                           passed_in |-> students.student_tuples,
                           passing_grade |-> given,
                           student_tuples |-> r.students,
                           passing |-> r.ret]
    /\ UNCHANGED OtherThanStudents

InitStudents ==
    /\ students \in {[pc |-> "raw", raw_student_data |-> d] :
                        d \in SeqUpTo(RawRows, MaxStudents)}
    /\ kernel = Idle /\ features = Idle /\ logs = Idle
    /\ iter = Idle /\ fmt = Idle /\ mem = Idle

NextStudents == CallConvertToTuples \/ CallFilterPassingStudents

SpecStudents == InitStudents /\ [][NextStudents]_vars

C7_FilterPassing ==
    students.pc = "filtered" =>
        LET s == students.passed_in
            r == students.passing
            grade == IF students.passing_grade = PyNone THEN 600
                     ELSE students.passing_grade.v
            pass == {i \in 1..Len(s) : s[i][3].v >= grade}
            nth(k) == CHOOSE i \in pass : Cardinality({j \in pass : j <= i}) = k
        IN  /\ Len(r) = Cardinality(pass)
            /\ \A k \in 1..Len(r) : r[k] = s[nth(k)]
            /\ students.student_tuples = s

\* A call with the default grade on a student at exactly 60.0 (kept) and a
\* student below it (dropped).
C7_Witness ==
    /\ students.pc = "filtered"
    /\ students.passing_grade = PyNone
    /\ Len(students.passed_in) = 2
    /\ students.passed_in[1][3] = PyFloat(599)
    /\ students.passed_in[2][3] = PyFloat(600)
    /\ students.passing = <<students.passed_in[2]>>

(***************************************************************************)
(* 7. format_data (Functions and Scoping notebook, challenge solution).    *)
(* **kwargs is a dict in the order the arguments were passed: a sequence   *)
(* of key / value entries with pairwise distinct keys.                     *)
(***************************************************************************)
KeyPrefix == <<"p", "r", "e", "f", "i", "x">>

KeySeparator == <<"s", "e", "p", "a", "r", "a", "t", "o", "r">>

DataKeys == { <<"a">>, <<"i", "d">> }

DataValues == { PyStr(<<"T">>), PyInt(100) }

PrefixValues == { PyStr(<<"-", "-">>) }

SeparatorValues == { PyStr(<<"|">>) }

MaxKwargs == 3

KwargEntries ==
    {[key |-> k, value |-> v] : k \in DataKeys, v \in DataValues}
        \cup {[key |-> KeyPrefix, value |-> v] : v \in PrefixValues}
        \cup {[key |-> KeySeparator, value |-> v] : v \in SeparatorValues}

\* The keyword arguments a call can pass: no keyword twice.
KwargsDicts ==
    {kw \in SeqUpTo(KwargEntries, MaxKwargs) :
        \A i, j \in 1..Len(kw) : i # j => kw[i].key # kw[j].key}

\* dict.pop(key, default): the value and the dict without the key, the
\* order of the other entries kept.
dict_pop(d, key, default) ==
    IF \E i \in 1..Len(d) : d[i].key = key
    THEN LET i == CHOOSE i \in 1..Len(d) : d[i].key = key
         IN  [value |-> d[i].value,
              rest |-> SubSeq(d, 1, i - 1) \o SubSeq(d, i + 1, Len(d))]
    ELSE [value |-> default, rest |-> d]

RECURSIVE str_join(_, _)
\* separator.join(parts)
str_join(separator, parts) ==
    IF Len(parts) = 0 THEN << >>
    ELSE IF Len(parts) = 1 THEN parts[1]
    ELSE parts[1] \o separator \o str_join(separator, Tail(parts))

\* f"{prefix}{key}={value}"
format_part(prefix, key, value) ==
    py_str(prefix).v \o key \o <<"=">> \o py_str(value).v

\* The same function reading the formatting arguments with kwargs.get().
format_data_get(kwargs) ==
    LET p == dict_pop(kwargs, KeyPrefix, PyStr(<< >>))
        s == dict_pop(kwargs, KeySeparator, PyStr(<<",", " ">>))
        formatted_parts == [i \in 1..Len(kwargs) |->
                               format_part(p.value, kwargs[i].key, kwargs[i].value)]
    IN  str_join(s.value.v, formatted_parts)

format_data(kwargs) ==
    LET p == dict_pop(kwargs, KeyPrefix, PyStr(<< >>))
        prefix == p.value
        s == dict_pop(p.rest, KeySeparator, PyStr(<<",", " ">>))
        separator == s.value
        data == s.rest
        formatted_parts == [i \in 1..Len(data) |->
                               format_part(prefix, data[i].key, data[i].value)]
    IN  str_join(separator.v, formatted_parts)

OtherThanFmt == <<kernel, features, logs, iter, students, mem>>

\* result = format_data(**kwargs)
CallFormatData ==
    /\ fmt.pc = "call"
    /\ fmt' = [pc |-> "returned", kwargs |-> fmt.kwargs,
               result |-> format_data(fmt.kwargs)]
    /\ UNCHANGED OtherThanFmt

InitFmt ==
    /\ fmt \in {[pc |-> "call", kwargs |-> kw] : kw \in KwargsDicts}
    /\ kernel = Idle /\ features = Idle /\ logs = Idle
    /\ iter = Idle /\ students = Idle /\ mem = Idle

NextFmt == CallFormatData

SpecFmt == InitFmt /\ [][NextFmt]_vars

\* The text of a data value as the claim's examples print it.
ExpectedText(value) ==
    IF value = PyInt(100) THEN <<"1", "0", "0">> ELSE value.v

\* C8: format_data returns the strings prefix + key + '=' + value for every
\* keyword argument other than 'prefix' and 'separator', in the order the
\* arguments were passed, joined by separator (defaults: prefix '' and
\* separator ', '); with no data arguments it returns the empty string.
C8_FormatData ==
    fmt.pc = "returned" =>
        LET kw == fmt.kwargs
            Given(key) == \E i \in 1..Len(kw) : kw[i].key = key
            ValueOf(key) == kw[CHOOSE i \in 1..Len(kw) : kw[i].key = key].value.v
            prefix == IF Given(KeyPrefix) THEN ValueOf(KeyPrefix) ELSE << >>
            separator == IF Given(KeySeparator) THEN ValueOf(KeySeparator)
                         ELSE <<",", " ">>
            data == {i \in 1..Len(kw) : kw[i].key \notin {KeyPrefix, KeySeparator}}
            nth(k) == CHOOSE i \in data : Cardinality({j \in data : j <= i}) = k
            piece(k) == prefix \o kw[nth(k)].key \o <<"=">>
                           \o ExpectedText(kw[nth(k)].value)
            n == Cardinality(data)
            expected[k \in 0..n] ==
                IF k = 0 THEN << >>
                ELSE IF k = 1 THEN piece(1)
                ELSE expected[k - 1] \o separator \o piece(k)
        IN  /\ fmt.result = expected[n]
            /\ (n = 0 => fmt.result = << >>)

\* A call with prefix passed between two data arguments, one of them an int:
\* format_data(id=100, prefix='--', a='T').
C8_Witness ==
    /\ fmt.pc = "returned"
    /\ fmt.kwargs = << [key |-> <<"i", "d">>, value |-> PyInt(100)],
                       [key |-> KeyPrefix, value |-> PyStr(<<"-", "-">>)],
                       [key |-> <<"a">>, value |-> PyStr(<<"T">>)] >>
    /\ fmt.result = <<"-", "-", "i", "d", "=", "1", "0", "0", ",", " ",
                      "-", "-", "a", "=", "T">>

(***************************************************************************)
(* 8. add_item_bad and add_item_good (Functions and Scoping notebook).     *)
(* Lists are objects: heap[id] is the contents of the list object id, and  *)
(* a reference is an id.  The default value [] of add_item_bad is          *)
(* evaluated once, when the def statement runs: it is the object           *)
(* DefaultList.  calls records every call: what was passed, the reference  *)
(* returned, and the contents of the list before and right after the call. *)
(***************************************************************************)
Items == {"apple", "banana"}

MaxCalls == 3

\* The list object created by the default value of add_item_bad.
DefaultList == 1

\* target_list omitted in add_item_good: None.
NoneRef == 0

\* Appending to a copy instead of to the list itself.
add_item_bad_copy(heap, item, target_list) ==
    [heap |-> Append(heap, Append(heap[target_list], item)),
     ret |-> Len(heap) + 1]

\* target_list.append(item); return target_list
add_item_bad(heap, item, target_list) ==
    [heap |-> [heap EXCEPT ![target_list] = Append(@, item)],
     ret |-> target_list]

\* The same function testing "if not target_list", which is also true of an
\* empty list.
add_item_good_falsy(heap, item, target_list) ==
    IF target_list = NoneRef \/ heap[target_list] = << >>
    THEN [heap |-> Append(heap, <<item>>), ret |-> Len(heap) + 1]
    ELSE [heap |-> [heap EXCEPT ![target_list] = Append(@, item)],
          ret |-> target_list]

\* if target_list is None: target_list = []; target_list.append(item)
add_item_good(heap, item, target_list) ==
    IF target_list = NoneRef
    THEN LET created == Append(heap, << >>)
             new_list == Len(created)
         IN  [heap |-> [created EXCEPT ![new_list] = Append(@, item)],
              ret |-> new_list]
    ELSE [heap |-> [heap EXCEPT ![target_list] = Append(@, item)],
          ret |-> target_list]

\* The references the caller holds: those returned by earlier calls.
Held == {mem.calls[i].ret : i \in 1..Len(mem.calls)}

CallRecord(fn, item, passed, before, r, old_heap) ==
    [fn |-> fn, item |-> item, passed |-> passed, before |-> before,
     ret |-> r.ret, returned |-> r.heap[r.ret],
     fresh |-> r.ret > Len(old_heap)]

OtherThanMem == <<kernel, features, logs, iter, students, fmt>>

\* add_item_bad(item): the default object is bound to target_list.
CallAddItemBad ==
    /\ mem.pc = "ready"
    /\ Len(mem.calls) < MaxCalls
    /\ \E item \in Items :
          LET r == add_item_bad(mem.heap, item, DefaultList)
          IN  mem' = [mem EXCEPT !.heap = r.heap,
                         !.calls = Append(@, CallRecord("add_item_bad", item, NoneRef,
                                                       mem.heap[DefaultList], r, mem.heap))]
    /\ UNCHANGED OtherThanMem

\* add_item_good(item): target_list is None.
CallAddItemGood ==
    /\ mem.pc = "ready"
    /\ Len(mem.calls) < MaxCalls
    /\ \E item \in Items :
          LET r == add_item_good(mem.heap, item, NoneRef)
          IN  mem' = [mem EXCEPT !.heap = r.heap,
                         !.calls = Append(@, CallRecord("add_item_good", item, NoneRef,
                                                       << >>, r, mem.heap))]
    /\ UNCHANGED OtherThanMem

\* add_item_bad(item, lst) / add_item_good(item, lst) with a list the caller
\* holds.
CallWithHeldList ==
    /\ mem.pc = "ready"
    /\ Len(mem.calls) < MaxCalls
    /\ \E item \in Items, lst \in Held, fn \in {"add_item_bad", "add_item_good"} :
          LET r == IF fn = "add_item_bad" THEN add_item_bad(mem.heap, item, lst)
                   ELSE add_item_good(mem.heap, item, lst)
          IN  mem' = [mem EXCEPT !.heap = r.heap,
                         !.calls = Append(@, CallRecord(fn, item, lst,
                                                       mem.heap[lst], r, mem.heap))]
    /\ UNCHANGED OtherThanMem

\* add_item_bad(item, []) / add_item_good(item, []): the caller passes a new
\* empty list.
CallWithNewList ==
    /\ mem.pc = "ready"
    /\ Len(mem.calls) < MaxCalls
    /\ \E item \in Items, fn \in {"add_item_bad", "add_item_good"} :
          LET passed_heap == Append(mem.heap, << >>)
              lst == Len(passed_heap)
              r == IF fn = "add_item_bad" THEN add_item_bad(passed_heap, item, lst)
                   ELSE add_item_good(passed_heap, item, lst)
          IN  mem' = [mem EXCEPT !.heap = r.heap,
                         !.calls = Append(@, CallRecord(fn, item, lst,
                                                       << >>, r, passed_heap))]
    /\ UNCHANGED OtherThanMem

\* After the two def statements: the default list exists and is empty.
InitMem ==
    /\ mem = [pc |-> "ready", heap |-> << << >> >>, calls |-> << >>]
    /\ kernel = Idle /\ features = Idle /\ logs = Idle
    /\ iter = Idle /\ students = Idle /\ fmt = Idle

NextMem == CallAddItemBad \/ CallAddItemGood \/ CallWithHeldList \/ CallWithNewList

SpecMem == InitMem /\ [][NextMem]_vars

\* The calls to add_item_bad that omitted target_list, up to call i.
BadDefaultCalls(i) ==
    {j \in 1..i : mem.calls[j].fn = "add_item_bad" /\ mem.calls[j].passed = NoneRef}

\* Their items, in call order.
BadDefaultItems(i) ==
    LET c == BadDefaultCalls(i)
        nth(k) == CHOOSE j \in c : Cardinality({h \in c : h <= j}) = k
    IN  [k \in 1..Cardinality(c) |-> mem.calls[nth(k)].item]

\* C9: the calls to add_item_bad that omit target_list share one list: the
\* k-th such call returns a list holding the items of all k calls in call
\* order, and every reference returned by an earlier such call shows the
\* same contents.  (Stated for runs in which that list is changed only by
\* these calls, i.e. is never passed explicitly as target_list.)
C9_SharedDefault ==
    (mem.pc = "ready"
        /\ \A i \in 1..Len(mem.calls) : mem.calls[i].passed # DefaultList) =>
        \A i \in BadDefaultCalls(Len(mem.calls)) :
            /\ mem.calls[i].returned = BadDefaultItems(i)
            /\ \A j \in BadDefaultCalls(i) : mem.calls[j].ret = mem.calls[i].ret
            /\ mem.heap[mem.calls[i].ret] = BadDefaultItems(Len(mem.calls))

\* Two calls without target_list, another call in between: the second
\* returns both items and the first reference shows them too.
C9_Witness ==
    /\ mem.pc = "ready"
    /\ Len(mem.calls) = 3
    /\ mem.calls[1].fn = "add_item_bad" /\ mem.calls[1].passed = NoneRef
    /\ mem.calls[2].fn = "add_item_good"
    /\ mem.calls[3].fn = "add_item_bad" /\ mem.calls[3].passed = NoneRef
    /\ mem.calls[1].returned = <<"apple">>
    /\ mem.calls[3].returned = <<"apple", "banana">>
    /\ mem.heap[mem.calls[1].ret] = <<"apple", "banana">>

\* C10: every call to add_item_good that omits target_list returns a new
\* list containing only that call's item, whatever calls were made before;
\* when a list is passed, the item is appended to that same list object and
\* that object is returned.
C10_GoodDefault ==
    mem.pc = "ready" =>
        \A i \in 1..Len(mem.calls) :
            mem.calls[i].fn = "add_item_good" =>
                IF mem.calls[i].passed = NoneRef
                THEN /\ mem.calls[i].fresh
                     /\ mem.calls[i].returned = <<mem.calls[i].item>>
                     /\ \A j \in 1..(i - 1) : mem.calls[j].ret # mem.calls[i].ret
                ELSE /\ mem.calls[i].ret = mem.calls[i].passed
                     /\ mem.calls[i].returned
                           = Append(mem.calls[i].before, mem.calls[i].item)

\* A call that passes a new empty list, a call without target_list after it,
\* and a call that passes the list the second call returned.
C10_Witness ==
    /\ mem.pc = "ready"
    /\ Len(mem.calls) = 3
    /\ mem.calls[1].fn = "add_item_good" /\ mem.calls[1].before = << >>
    /\ mem.calls[1].passed # NoneRef
    /\ mem.calls[2].fn = "add_item_good" /\ mem.calls[2].passed = NoneRef
    /\ mem.calls[3].fn = "add_item_good" /\ mem.calls[3].passed = mem.calls[2].ret
    /\ mem.calls[3].returned = <<"apple", "banana">>

=============================================================================
